---------------------------- MODULE Spec2Model ----------------------------
(***************************************************************************)
(* A model of logutil.py (mtk-log-util): one command invocation, from the  *)
(* parsed command line to the process exit.                                *)
(*                                                                         *)
(* Text is modelled as what it is in the program: a sequence of byte       *)
(* values.  A Python value that may be None is a record [some, val].       *)
(* The external mtkclient process and the file system are the              *)
(* environment: the exit status of each command, the bytes it leaves in    *)
(* the raw dump file, and the outcome of each file operation are chosen    *)
(* nondeterministically from small sets.                                   *)
(***************************************************************************)
EXTENDS Integers, Sequences, FiniteSets, TLC

VARIABLES
    args,          \* argparse namespace: command, pstore_address, pstore_size,
                   \* auto_detect_pstore, dont_peek_via_da, mtkclient_args
    pc,            \* position of the (single) thread of control
    warned,        \* the line-264 warning has been logged
    calls,         \* the command lines handed to run_command, in order
    cmd_ok,        \* return value of the last extract_with_mtkclient call
    tmp,           \* the TemporaryDirectory of the running with-block
    ntmp,          \* how many temporary directories have been created
    tmpdirs,       \* temporary directories that exist
    files,         \* raw dump files that exist: records [path, data]
    ascii_strings, \* _find_pstore_config_in_data: the strings to scan
    idx,           \* _find_pstore_config_in_data: next string of the for loop
    pstore_addr,   \* _find_pstore_config_in_data: local pstore_addr
    pstore_size,   \* _find_pstore_config_in_data: local pstore_size
    examined,      \* indices of ascii_strings the loop body has run on, in order
    found,         \* the pair _find_pstore_config_in_data returned (if it ran)
    address,       \* resolve_pstore_params: resolved address
    size,          \* resolve_pstore_params: resolved size
    data,          \* extract_ascii_strings: bytes of the file it is given
    min_length,    \* extract_ascii_strings: min_length
    filename,      \* extract_ascii_strings: filename
    outfile,       \* the output file: [state, content]
    scans,         \* number of calls of extract_ascii_strings
    failures,      \* the failures that occurred so far in this invocation
    result,        \* what main returned: "none" (not yet), "True", "False"
    exit_code      \* process exit status, -1 while running

vars == <<args, pc, warned, calls, cmd_ok, tmp, ntmp, tmpdirs, files,
          ascii_strings, idx, pstore_addr, pstore_size, examined, found,
          address, size, data, min_length, filename, outfile, scans,
          failures, result, exit_code>>

---------------------------------------------------------------------------
(* Bounds of the model *)

\* longest byte buffer given to extract_ascii_strings in SpecScan
MaxLen == 5
\* largest min_length given to extract_ascii_strings in SpecScan
MaxMin == 4
\* most chunks concatenated into an expdb dump in SpecDetect
MaxChunks == 4

---------------------------------------------------------------------------
(* Text constants of the program, as bytes *)

\* 'python mtkclient/mtk.py'
MTK_CLIENT_CMD ==
    <<112, 121, 116, 104, 111, 110, 32, 109, 116, 107, 99, 108, 105, 101,
      110, 116, 47, 109, 116, 107, 46, 112, 121>>
\* ''
MTK_CLIENT_ARGS ==
    <<>>
\* '0x48090000'
PSTORE_ADDRESS ==
    <<48, 120, 52, 56, 48, 57, 48, 48, 48, 48>>
\* '0xe0000'
PSTORE_SIZE ==
    <<48, 120, 101, 48, 48, 48, 48>>
\* ' r expdb '
S_r_expdb ==
    <<32, 114, 32, 101, 120, 112, 100, 98, 32>>
\* 'da'
S_da ==
    <<100, 97>>
\* ' peek '
S_peek ==
    <<32, 112, 101, 101, 107, 32>>
\* '--filename '
S_filename ==
    <<45, 45, 102, 105, 108, 101, 110, 97, 109, 101, 32>>
\* '/expdb.bin'
S_expdb_bin ==
    <<47, 101, 120, 112, 100, 98, 46, 98, 105, 110>>
\* '/pstore.bin'
S_pstore_bin ==
    <<47, 112, 115, 116, 111, 114, 101, 46, 98, 105, 110>>
\* '=== ASCII Strings from '
S_header_pre ==
    <<61, 61, 61, 32, 65, 83, 67, 73, 73, 32, 83, 116, 114, 105, 110, 103,
      115, 32, 102, 114, 111, 109, 32>>
\* ' ==='
S_header_post ==
    <<32, 61, 61, 61>>
\* 'pstore_addr'
S_pstore_addr ==
    <<112, 115, 116, 111, 114, 101, 95, 97, 100, 100, 114>>
\* 'pstore_size'
S_pstore_size ==
    <<112, 115, 116, 111, 114, 101, 95, 115, 105, 122, 101>>
\* '0x'
S_0x ==
    <<48, 120>>
\* ' ' and '\n'
S_space ==
    <<32>>
S_newline ==
    <<10>>

---------------------------------------------------------------------------
(* Python values *)

None == [some |-> FALSE, val |-> <<>>]
Some(s) == [some |-> TRUE, val |-> s]

\* truth value of an Optional[str]: None and '' are false
Truthy(o) == o.some /\ o.val # <<>>

\* a or b
PyOr(a, b) == IF Truthy(a) THEN a ELSE b

RECURSIVE Concat(_)
\* ''.join(parts)
Concat(parts) ==
    IF parts = <<>> THEN <<>> ELSE Head(parts) \o Concat(Tail(parts))

RECURSIVE Join(_, _)
\* sep.join(parts)
Join(sep, parts) ==
    IF parts = <<>> THEN <<>>
    ELSE IF Len(parts) = 1 THEN parts[1]
    ELSE parts[1] \o sep \o Join(sep, Tail(parts))

\* needle in hay
Contains(hay, needle) ==
    \E i \in 1..(Len(hay) - Len(needle) + 1) :
        SubSeq(hay, i, i + Len(needle) - 1) = needle

\* hay.startswith(prefix)
StartsWith(hay, prefix) ==
    /\ Len(prefix) <= Len(hay)
    /\ SubSeq(hay, 1, Len(prefix)) = prefix

---------------------------------------------------------------------------
(* The printable-ASCII scan: re.findall(rb'[\x20-\x7E]{m,}', data) *)

\* Printable with the upper edge off by one: DEL counts as printable
Printable_ThroughDel(b) == 32 <= b /\ b <= 127

\* a byte of the class [\x20-\x7E]
Printable(b) == 32 <= b /\ b <= 126

RECURSIVE GreedyRun(_, _)
\* how many bytes the greedy quantifier consumes from position i on
GreedyRun(bytes, i) ==
    IF i > Len(bytes) \/ ~Printable(bytes[i]) THEN 0
    ELSE 1 + GreedyRun(bytes, i + 1)

RECURSIVE FindAllFrom(_, _, _)
\* re.findall: try a match at i; on success emit it and resume after it, on
\* failure resume at i + 1.  m >= 1, so no match is empty.
FindAllFrom(bytes, i, m) ==
    IF i > Len(bytes) THEN <<>>
    ELSE LET n == GreedyRun(bytes, i)
         IN  IF n >= m
             THEN <<SubSeq(bytes, i, i + n - 1)>> \o FindAllFrom(bytes, i + n, m)
             ELSE FindAllFrom(bytes, i + 1, m)

\* re.findall(rb'[\x20-\x7E]{' + str(m).encode() + rb',}', bytes)
FindPrintable(bytes, m) == FindAllFrom(bytes, 1, m)

\* string.decode('ascii') succeeds
Decodable(string) == \A i \in 1..Len(string) : string[i] < 128

\* the strings of `found` kept by the try/except of the for loop
DecodedStrings(strs) == SelectSeq(strs, Decodable)

\* f'=== ASCII Strings from {filename} ==='
HeaderLine(fname) == S_header_pre \o fname \o S_header_post

\* '\n'.join(output_lines)
OutputText(fname, bytes, m) ==
    Join(S_newline, <<HeaderLine(fname)>> \o DecodedStrings(FindPrintable(bytes, m)))

\* the output file before anything is written
NoFile == [state |-> "absent", content |-> <<>>]

\* The outcomes of the file operations of one extract_ascii_strings call.
IoOutcomes == {"ok", "read_error", "open_error", "write_error"}

\* extract_ascii_strings(output_file, filename, min_length): the output file
\* afterwards.  `dump` is the content of `filename` (None: no such file), io
\* the outcome of the file operations.  An OSError is logged and swallowed:
\* on a read error nothing is opened for writing; open(output_file, 'w')
\* failing leaves the file as it was; a failing write leaves it truncated.
extract_ascii_strings(out, dump, fname, m, io) ==
    IF ~dump.some \/ io = "read_error" THEN out
    ELSE IF io = "open_error" THEN out
    ELSE IF io = "write_error" THEN [state |-> "truncated", content |-> <<>>]
    ELSE [state |-> "written", content |-> OutputText(fname, dump.val, m)]

\* the OSError branch of extract_ascii_strings is taken
ScanFails(dump, io) == ~dump.some \/ io # "ok"

---------------------------------------------------------------------------
(* The detection patterns: pstore_addr[:\s]*0x([0-9a-fA-F]+), re.IGNORECASE *)

\* c.lower() on ASCII
Lower(c) == IF 65 <= c /\ c <= 90 THEN c + 32 ELSE c

\* the class [:\s]
ColonOrSpace(c) == c = 58 \/ c \in {9, 10, 11, 12, 13, 28, 29, 30, 31, 32}

\* the class [0-9a-fA-F]
HexDigit(c) ==
    \/ 48 <= c /\ c <= 57
    \/ 97 <= c /\ c <= 102
    \/ 65 <= c /\ c <= 70

RECURSIVE SkipColonOrSpace(_, _)
\* [:\s]* from i on: the position after the longest run of the class
SkipColonOrSpace(str, i) ==
    IF i <= Len(str) /\ ColonOrSpace(str[i])
    THEN SkipColonOrSpace(str, i + 1) ELSE i

RECURSIVE SkipHexDigits(_, _)
\* [0-9a-fA-F]* from i on: the position after the longest run of the class
SkipHexDigits(str, i) ==
    IF i <= Len(str) /\ HexDigit(str[i])
    THEN SkipHexDigits(str, i + 1) ELSE i

\* the literal lit matches str at i, ignoring case
LiteralAt(str, i, lit) ==
    /\ i + Len(lit) - 1 <= Len(str)
    /\ \A k \in 1..Len(lit) : Lower(str[i + k - 1]) = Lower(lit[k])

\* a match of  key[:\s]*0x([0-9a-fA-F]+)  starting at i: group(1), or None
MatchAt(str, i, key) ==
    IF ~LiteralAt(str, i, key) THEN None
    ELSE LET j == SkipColonOrSpace(str, i + Len(key))
         IN  IF ~LiteralAt(str, j, S_0x) THEN None
             ELSE LET e == SkipHexDigits(str, j + 2)
                  IN  IF e = j + 2 THEN None
                      ELSE Some(SubSeq(str, j + 2, e - 1))

RECURSIVE SearchFrom(_, _, _)
SearchFrom(str, i, key) ==
    IF i > Len(str) THEN None
    ELSE LET g == MatchAt(str, i, key)
         IN  IF g.some THEN g ELSE SearchFrom(str, i + 1, key)

\* re.search(key + r'[:\s]*0x([0-9a-fA-F]+)', str, re.IGNORECASE): group(1)
\* of the leftmost match, or None
Search(str, key) == SearchFrom(str, 1, key)

\* the body of the for loop on one decoded string: the new (pstore_addr,
\* pstore_size)
ScanString(addr, sz, decoded) ==
    LET addr_match == Search(decoded, S_pstore_addr)
        size_match == Search(decoded, S_pstore_size)
    IN  [addr |-> IF addr_match.some THEN Some(S_0x \o addr_match.val) ELSE addr,
         size |-> IF size_match.some THEN Some(S_0x \o size_match.val) ELSE sz]

\* BreakLoop with or for and: the loop stops at the first match of either
BreakLoop_Either(addr, sz) == Truthy(addr) \/ Truthy(sz)

\* if pstore_addr and pstore_size: break
BreakLoop(addr, sz) == Truthy(addr) /\ Truthy(sz)

---------------------------------------------------------------------------
(* Commands *)

\* min_length: int = 4
DefaultMinLength == 4
\* the 4 of rb'[\x20-\x7E]{4,}' in _find_pstore_config_in_data
DetectMinLength == 4

\* str(None), what an f-string makes of None
S_None ==
    <<78, 111, 110, 101>>

\* f'{o}'
Str(o) == IF o.some THEN o.val ELSE S_None

\* extract_with_mtkclient: the command line built for extraction_type
CommandLine(extraction_type, output_filename, addr, sz, da) ==
    IF extraction_type = "expdb"
    THEN MTK_CLIENT_CMD \o S_r_expdb \o output_filename \o S_space
           \o MTK_CLIENT_ARGS
    ELSE MTK_CLIENT_CMD \o S_space \o (IF da THEN S_da ELSE <<>>) \o S_peek
           \o Str(addr) \o S_space \o Str(sz) \o S_space
           \o S_filename \o output_filename \o S_space \o MTK_CLIENT_ARGS

\* How the external process can end: exit status 0, another exit status, or
\* Popen raising OSError.
CmdOutcomes == {"ok", "nonzero", "oserror"}

\* run_command without the check of the return code
run_command_IgnoresStatus(outcome) == outcome # "oserror"

\* run_command: True only if the process was launched and exited with 0
run_command(outcome) == outcome = "ok"

\* tempfile.TemporaryDirectory(): the n-th directory of the invocation
\* '/tmp/tmp<n>'
TmpDir(n) == <<47, 116, 109, 112, 47, 116, 109, 112>> \o <<48 + n>>

\* the content of the file at path, None if there is no such file
FileData(fs, path) ==
    IF \E f \in fs : f.path = path
    THEN Some((CHOOSE f \in fs : f.path = path).data)
    ELSE None

\* Cleanup that leaves the raw dump where it is
Cleanup_KeepsFiles(fs, dir) == fs

\* leaving the with-block: the directory and everything in it is removed
Cleanup(fs, dir) == {f \in fs : ~StartsWith(f.path, dir)}

\* the directories left after the with-block of dir
CleanupDirs(dirs, dir) == dirs \ {dir}

---------------------------------------------------------------------------
(* Parameter resolution *)

NotFound == [addr |-> None, size |-> None]
Defaults == [addr |-> Some(PSTORE_ADDRESS), size |-> Some(PSTORE_SIZE)]

\* DetectResult without the partial matches: both values or the defaults
DetectResult_AllOrNothing(f) ==
    IF Truthy(f.addr) /\ Truthy(f.size) THEN [addr |-> f.addr, size |-> f.size]
    ELSE [addr |-> Some(PSTORE_ADDRESS), size |-> Some(PSTORE_SIZE)]

\* detect_pstore_addr, "Handle partial matches with fallbacks": what it
\* returns for the pair f that _find_pstore_config_in_data returned
DetectResult(f) ==
    IF Truthy(f.addr) /\ Truthy(f.size) THEN [addr |-> f.addr, size |-> f.size]
    ELSE IF Truthy(f.addr) THEN [addr |-> f.addr, size |-> Some(PSTORE_SIZE)]
    ELSE IF Truthy(f.size) THEN [addr |-> Some(PSTORE_ADDRESS), size |-> f.size]
    ELSE Defaults

\* resolve_pstore_params; detected is what detect_pstore_addr returned (only
\* called, and only read, when auto_detect)
resolve_pstore_params(pstore_address, pstore_sz, auto_detect, detected) ==
    IF auto_detect
    THEN [addr |-> PyOr(pstore_address, detected.addr),
          size |-> PyOr(pstore_sz, detected.size)]
    ELSE [addr |-> PyOr(pstore_address, Some(PSTORE_ADDRESS)),
          size |-> PyOr(pstore_sz, Some(PSTORE_SIZE))]

\* the condition of the warning in main (and binds tighter than or)
WarnCondition(a) ==
    a.auto_detect_pstore \/ (a.dont_peek_via_da /\ a.command # "pstore")

\* the exit status of the process once main has returned r: the module ends
\* with a bare main(), whose value is dropped
ExitStatus(r) == 0

---------------------------------------------------------------------------
(* Inputs: command lines and dump contents *)

\* '0x1000', '0x200': values given with --pstore-address / --pstore-size
ARG_ADDR ==
    <<48, 120, 49, 48, 48, 48>>
ARG_SIZE ==
    <<48, 120, 50, 48, 48>>
\* '--debugmode': a value given with --mtkclient-args
ARG_EXTRA ==
    <<45, 45, 100, 101, 98, 117, 103, 109, 111, 100, 101>>
\* 'out.txt': the positional filename
ARG_FILENAME ==
    <<111, 117, 116, 46, 116, 120, 116>>

\* What parse_args can return.  An option that was not given is None (the
\* two store_true / store_false flags: False / True); a string option may be
\* given as the empty string.
ArgSpace ==
    [command : {"expdb", "pstore"},
     filename : {ARG_FILENAME},
     mtkclient_args : {None, Some(ARG_EXTRA)},
     pstore_address : {None, Some(<<>>), Some(ARG_ADDR)},
     pstore_size : {None, Some(<<>>), Some(ARG_SIZE)},
     auto_detect_pstore : BOOLEAN,
     dont_peek_via_da : BOOLEAN]

\* 'pstore_addr: 0x48090000'
K_addr_line ==
    <<112, 115, 116, 111, 114, 101, 95, 97, 100, 100, 114, 58, 32, 48, 120,
      52, 56, 48, 57, 48, 48, 48, 48>>
\* 'pstore_size: 0xe0000'
K_size_line ==
    <<112, 115, 116, 111, 114, 101, 95, 115, 105, 122, 101, 58, 32, 48, 120,
      101, 48, 48, 48, 48>>
\* ' junk '
K_junk ==
    <<32, 106, 117, 110, 107, 32>>
\* 'PSTORE_ADDR:0X4A'
K_addr_upper ==
    <<80, 83, 84, 79, 82, 69, 95, 65, 68, 68, 82, 58, 48, 88, 52, 65>>
\* 'pstore_size 0x'
K_size_nohex ==
    <<112, 115, 116, 111, 114, 101, 95, 115, 105, 122, 101, 32, 48, 120>>
\* '4a00'
K_digits ==
    <<52, 97, 48, 48>>
\* 'pstore_addr: 0x4a000000'
K_addr2 ==
    <<112, 115, 116, 111, 114, 101, 95, 97, 100, 100, 114, 58, 32, 48, 120,
      52, 97, 48, 48, 48, 48, 48, 48>>
\* 'pstore_size: 0x100000'
K_size2 ==
    <<112, 115, 116, 111, 114, 101, 95, 115, 105, 122, 101, 58, 32, 48, 120,
      49, 48, 48, 48, 48, 48>>
\* 'lk boot'
K_log ==
    <<108, 107, 32, 98, 111, 111, 116>>
\* a NUL byte
K_nul ==
    <<0>>

\* The expdb dumps an invocation may read: no hint, address only, size only,
\* both in one string, both in two strings with a third string after them,
\* and an empty dump.
ExpdbDumps ==
    { K_log \o K_nul,
      K_nul \o K_addr2 \o K_nul \o K_log,
      K_size2 \o K_nul,
      K_addr2 \o K_junk \o K_size2,
      K_addr2 \o K_nul \o K_size2 \o K_nul \o K_addr_line,
      <<>> }

\* The pstore dumps an invocation may read.
PstoreDumps ==
    { <<>>,
      K_log \o <<0, 200, 10>> \o K_junk \o <<127>> \o <<111, 107>> }

\* The pieces an expdb dump is made of in SpecDetect.
Chunks ==
    { K_addr_line, K_size_line \o K_nul, K_junk, K_addr_upper \o K_nul,
      K_size_nohex, K_digits, K_nul }

RECURSIVE ChunkSeqs(_)
\* all sequences of at most n chunks
ChunkSeqs(n) ==
    IF n = 0 THEN {<<>>}
    ELSE LET shorter == ChunkSeqs(n - 1)
         IN  shorter \cup {Append(q, c) : q \in shorter, c \in Chunks}

\* The expdb dumps of SpecDetect.
DetectDumps == {Concat(q) : q \in ChunkSeqs(MaxChunks)}

\* The bytes a buffer of SpecScan is made of: both edges of [\x20-\x7E].
ScanBytes == {31, 32, 126, 127}

RECURSIVE Buffers(_)
\* all buffers of at most n bytes
Buffers(n) ==
    IF n = 0 THEN {<<>>}
    ELSE LET shorter == Buffers(n - 1)
         IN  shorter \cup {Append(b, c) : b \in shorter, c \in ScanBytes}

---------------------------------------------------------------------------
(* The state after parse_args *)

\* the variables no code has touched yet
Untouched ==
    /\ warned = FALSE
    /\ calls = <<>>
    /\ cmd_ok = FALSE
    /\ tmp = <<>>
    /\ ntmp = 0
    /\ tmpdirs = {}
    /\ files = {}
    /\ ascii_strings = <<>>
    /\ idx = 1
    /\ pstore_addr = None
    /\ pstore_size = None
    /\ examined = <<>>
    /\ found = NotFound
    /\ address = None
    /\ size = None
    /\ outfile = NoFile
    /\ scans = 0
    /\ failures = {}
    /\ result = "none"
    /\ exit_code = -1

Init ==
    /\ args \in ArgSpace
    /\ pc = "main"
    /\ data = <<>>
    /\ min_length = DefaultMinLength
    /\ filename = <<>>
    /\ Untouched

---------------------------------------------------------------------------
(* Steps shared by the operations *)

\* with tempfile.TemporaryDirectory() as tmp, then
\* extract_with_mtkclient(extraction_type, f"{tmp}<suffix>", ...): the
\* directory is created, the command line is built and run; the process may
\* leave a raw dump (any of dumps) at the path it was given, unless it was
\* never launched.
RunInTmp(extraction_type, suffix, addr, sz, da, dumps, failure, next) ==
    \E outcome \in CmdOutcomes, wrote \in {None} \cup {Some(d) : d \in dumps} :
        LET dir == TmpDir(ntmp + 1)
            output_filename == dir \o suffix
        IN  /\ outcome = "oserror" => ~wrote.some
            /\ tmp' = dir
            /\ ntmp' = ntmp + 1
            /\ tmpdirs' = tmpdirs \cup {dir}
            /\ calls' = Append(calls,
                   [type |-> extraction_type,
                    address |-> addr,
                    size |-> sz,
                    cmd |-> CommandLine(extraction_type, output_filename,
                                        addr, sz, da)])
            /\ cmd_ok' = run_command(outcome)
            /\ files' = IF wrote.some
                        THEN files \cup {[path |-> output_filename,
                                          data |-> wrote.val]}
                        ELSE files
            /\ failures' = IF outcome = "ok" THEN failures
                           ELSE failures \cup {failure}
            /\ pc' = next

\* the with-block is left: its directory is removed with what is in it
LeaveTmp ==
    /\ tmpdirs' = CleanupDirs(tmpdirs, tmp)
    /\ files' = Cleanup(files, tmp)

\* ExtractReturn that reports success whatever the command did
ExtractReturn_AlwaysTrue(ok) == "True"

\* extract_expdb / extract_pstore: the value returned after the command
ExtractReturn(ok) == IF ok THEN "True" ELSE "False"

\* the command succeeded: extract_ascii_strings(filename=f"{tmp}<suffix>",
\* output_file=output_file), return True, leave the with-block
ScanAndReturn(suffix) ==
    \E io \in IoOutcomes :
        LET raw == tmp \o suffix
            dump == FileData(files, raw)
        IN  /\ cmd_ok
            /\ filename' = raw
            /\ min_length' = DefaultMinLength
            /\ data' = IF dump.some /\ io # "read_error" THEN dump.val ELSE data
            /\ outfile' = extract_ascii_strings(outfile, dump, raw,
                                                DefaultMinLength, io)
            /\ scans' = scans + 1
            /\ failures' = IF ScanFails(dump, io)
                           THEN failures \cup {"scan_io"} ELSE failures
            /\ LeaveTmp
            /\ result' = ExtractReturn(cmd_ok)
            /\ pc' = "returned"
            /\ UNCHANGED <<args, warned, calls, cmd_ok, tmp, ntmp,
                           ascii_strings, idx, pstore_addr, pstore_size,
                           examined, found, address, size, exit_code>>

\* the command failed: leave the with-block, log, return False
FailAndReturn ==
    /\ ~cmd_ok
    /\ LeaveTmp
    /\ result' = ExtractReturn(cmd_ok)
    /\ pc' = "returned"
    /\ UNCHANGED <<args, warned, calls, cmd_ok, tmp, ntmp, ascii_strings, idx,
                   pstore_addr, pstore_size, examined, found, address, size,
                   data, min_length, filename, outfile, scans, failures,
                   exit_code>>

\* resolve_pstore_params once detect_pstore_addr (if called) returned
\* detected: address and size are set and extract_pstore goes on
Resolve(detected) ==
    LET r == resolve_pstore_params(args.pstore_address, args.pstore_size,
                                   args.auto_detect_pstore, detected)
    IN  /\ address' = r.addr
        /\ size' = r.size
        /\ pc' = "peek"

---------------------------------------------------------------------------
(* main *)

\* main, from parse_args to the call of extract_expdb or extract_pstore
main ==
    /\ pc = "main"
    /\ warned' = WarnCondition(args)
    /\ pc' = IF args.command = "expdb" THEN "expdb" ELSE "resolve"
    /\ UNCHANGED <<args, calls, cmd_ok, tmp, ntmp, tmpdirs, files,
                   ascii_strings, idx, pstore_addr, pstore_size, examined,
                   found, address, size, data, min_length, filename, outfile,
                   scans, failures, result, exit_code>>

\* if __name__ == '__main__': main()
process_exit ==
    /\ pc = "returned"
    /\ exit_code' = ExitStatus(result)
    /\ pc' = "exited"
    /\ UNCHANGED <<args, warned, calls, cmd_ok, tmp, ntmp, tmpdirs, files,
                   ascii_strings, idx, pstore_addr, pstore_size, examined,
                   found, address, size, data, min_length, filename, outfile,
                   scans, failures, result>>

---------------------------------------------------------------------------
(* extract_expdb *)

extract_expdb_run ==
    /\ pc = "expdb"
    /\ RunInTmp("expdb", S_expdb_bin, None, None, TRUE, ExpdbDumps, "cmd",
                "expdb_ran")
    /\ UNCHANGED <<args, warned, ascii_strings, idx, pstore_addr, pstore_size,
                   examined, found, address, size, data, min_length, filename,
                   outfile, scans, result, exit_code>>

extract_expdb_scan ==
    /\ pc = "expdb_ran"
    /\ ScanAndReturn(S_expdb_bin)

extract_expdb_fail ==
    /\ pc = "expdb_ran"
    /\ FailAndReturn

---------------------------------------------------------------------------
(* extract_pstore: resolve_pstore_params and detect_pstore_addr *)

\* auto_detect is False
resolve_without_detect ==
    /\ pc = "resolve"
    /\ ~args.auto_detect_pstore
    /\ Resolve(NotFound)
    /\ UNCHANGED <<args, warned, calls, cmd_ok, tmp, ntmp, tmpdirs, files,
                   ascii_strings, idx, pstore_addr, pstore_size, examined,
                   found, data, min_length, filename, outfile, scans,
                   failures, result, exit_code>>

\* detect_run without the test of auto_detect
detect_run_Unconditional ==
    /\ pc = "resolve"
    /\ RunInTmp("expdb", S_expdb_bin, None, None, TRUE, ExpdbDumps,
                "detect_cmd", "detect_ran")
    /\ UNCHANGED <<args, warned, ascii_strings, idx, pstore_addr, pstore_size,
                   examined, found, address, size, data, min_length, filename,
                   outfile, scans, result, exit_code>>

\* auto_detect is True: detect_pstore_addr reads the expdb partition
detect_run ==
    /\ pc = "resolve"
    /\ args.auto_detect_pstore
    /\ RunInTmp("expdb", S_expdb_bin, None, None, TRUE, ExpdbDumps,
                "detect_cmd", "detect_ran")
    /\ UNCHANGED <<args, warned, ascii_strings, idx, pstore_addr, pstore_size,
                   examined, found, address, size, data, min_length, filename,
                   outfile, scans, result, exit_code>>

\* the expdb read failed: detect_pstore_addr returns the defaults
detect_fail ==
    /\ pc = "detect_ran"
    /\ ~cmd_ok
    /\ LeaveTmp
    /\ Resolve(Defaults)
    /\ UNCHANGED <<args, warned, calls, cmd_ok, tmp, ntmp, ascii_strings, idx,
                   pstore_addr, pstore_size, examined, found, data,
                   min_length, filename, outfile, scans, failures, result,
                   exit_code>>

\* open / read of the raw dump raises OSError: the defaults again
detect_read_error ==
    /\ pc = "detect_ran"
    /\ cmd_ok
    /\ LeaveTmp
    /\ Resolve(Defaults)
    /\ failures' = failures \cup {"detect_read"}
    /\ UNCHANGED <<args, warned, calls, cmd_ok, tmp, ntmp, ascii_strings, idx,
                   pstore_addr, pstore_size, examined, found, data,
                   min_length, filename, outfile, scans, result, exit_code>>

\* the raw dump is read
detect_read ==
    /\ pc = "detect_ran"
    /\ cmd_ok
    /\ FileData(files, tmp \o S_expdb_bin).some
    /\ data' = FileData(files, tmp \o S_expdb_bin).val
    /\ pc' = "find"
    /\ UNCHANGED <<args, warned, calls, cmd_ok, tmp, ntmp, tmpdirs, files,
                   ascii_strings, idx, pstore_addr, pstore_size, examined,
                   found, address, size, min_length, filename, outfile, scans,
                   failures, result, exit_code>>

\* _find_pstore_config_in_data(data), up to the for loop
find_begin ==
    /\ pc = "find"
    /\ ascii_strings' = FindPrintable(data, DetectMinLength)
    /\ pstore_addr' = None
    /\ pstore_size' = None
    /\ idx' = 1
    /\ examined' = <<>>
    /\ pc' = "scan"
    /\ UNCHANGED <<args, warned, calls, cmd_ok, tmp, ntmp, tmpdirs, files,
                   found, address, size, data, min_length, filename, outfile,
                   scans, failures, result, exit_code>>

\* one iteration of the for loop
scan_step ==
    /\ pc = "scan"
    /\ idx <= Len(ascii_strings)
    /\ examined' = Append(examined, idx)
    /\ IF Decodable(ascii_strings[idx])
       THEN LET r == ScanString(pstore_addr, pstore_size, ascii_strings[idx])
            IN  /\ pstore_addr' = r.addr
                /\ pstore_size' = r.size
                /\ IF BreakLoop(r.addr, r.size)
                   THEN pc' = "scan_return" /\ idx' = idx
                   ELSE pc' = "scan" /\ idx' = idx + 1
       ELSE /\ UNCHANGED <<pstore_addr, pstore_size>>
            /\ pc' = "scan"
            /\ idx' = idx + 1
    /\ UNCHANGED <<args, warned, calls, cmd_ok, tmp, ntmp, tmpdirs, files,
                   ascii_strings, found, address, size, data, min_length,
                   filename, outfile, scans, failures, result, exit_code>>

\* return pstore_addr, pstore_size: after a break or the end of the loop
scan_return ==
    /\ \/ pc = "scan_return"
       \/ pc = "scan" /\ idx > Len(ascii_strings)
    /\ found' = [addr |-> pstore_addr, size |-> pstore_size]
    /\ pc' = "found"
    /\ UNCHANGED <<args, warned, calls, cmd_ok, tmp, ntmp, tmpdirs, files,
                   ascii_strings, idx, pstore_addr, pstore_size, examined,
                   address, size, data, min_length, filename, outfile, scans,
                   failures, result, exit_code>>

\* detect_pstore_addr returns what was found, completed with the defaults
detect_return ==
    /\ pc = "found"
    /\ LeaveTmp
    /\ Resolve(DetectResult(found))
    /\ UNCHANGED <<args, warned, calls, cmd_ok, tmp, ntmp, ascii_strings, idx,
                   pstore_addr, pstore_size, examined, found, data,
                   min_length, filename, outfile, scans, failures, result,
                   exit_code>>

---------------------------------------------------------------------------
(* extract_pstore: the peek *)

extract_pstore_run ==
    /\ pc = "peek"
    /\ RunInTmp("pstore", S_pstore_bin, address, size, args.dont_peek_via_da,
                PstoreDumps, "cmd", "peek_ran")
    /\ UNCHANGED <<args, warned, ascii_strings, idx, pstore_addr, pstore_size,
                   examined, found, address, size, data, min_length, filename,
                   outfile, scans, result, exit_code>>

extract_pstore_scan ==
    /\ pc = "peek_ran"
    /\ ScanAndReturn(S_pstore_bin)

extract_pstore_fail ==
    /\ pc = "peek_ran"
    /\ FailAndReturn

---------------------------------------------------------------------------
(* One invocation of the program *)

Next ==
    \/ main
    \/ extract_expdb_run
    \/ extract_expdb_scan
    \/ extract_expdb_fail
    \/ resolve_without_detect
    \/ detect_run
    \/ detect_fail
    \/ detect_read_error
    \/ detect_read
    \/ find_begin
    \/ scan_step
    \/ scan_return
    \/ detect_return
    \/ extract_pstore_run
    \/ extract_pstore_scan
    \/ extract_pstore_fail
    \/ process_exit

Spec == Init /\ [][Next]_vars

---------------------------------------------------------------------------
(* extract_ascii_strings on its own: every buffer, every min_length *)

\* a command line with no option given
NoOptions ==
    [command |-> "expdb", filename |-> ARG_FILENAME, mtkclient_args |-> None,
     pstore_address |-> None, pstore_size |-> None,
     auto_detect_pstore |-> FALSE, dont_peek_via_da |-> TRUE]

\* the raw files extract_ascii_strings is called on
ScanFilenames == {TmpDir(1) \o S_expdb_bin, TmpDir(2) \o S_pstore_bin}

InitScan ==
    /\ args = NoOptions
    /\ pc = "scanfile"
    /\ data \in Buffers(MaxLen)
    /\ min_length \in 1..MaxMin
    /\ filename \in ScanFilenames
    /\ Untouched

\* extract_ascii_strings(output_file, filename, min_length) on a file that
\* holds data
scan_file ==
    /\ pc = "scanfile"
    /\ \E io \in IoOutcomes :
           /\ outfile' = extract_ascii_strings(outfile, Some(data), filename,
                                               min_length, io)
           /\ failures' = IF ScanFails(Some(data), io)
                          THEN failures \cup {"scan_io"} ELSE failures
    /\ scans' = scans + 1
    /\ pc' = "scanned"
    /\ UNCHANGED <<args, warned, calls, cmd_ok, tmp, ntmp, tmpdirs, files,
                   ascii_strings, idx, pstore_addr, pstore_size, examined,
                   found, address, size, data, min_length, filename, result,
                   exit_code>>

SpecScan == InitScan /\ [][scan_file]_vars

---------------------------------------------------------------------------
(* _find_pstore_config_in_data on its own: every dump made of the chunks *)

InitDetect ==
    /\ args = NoOptions
    /\ pc = "find"
    /\ data \in DetectDumps
    /\ min_length = DefaultMinLength
    /\ filename = <<>>
    /\ Untouched

NextDetect ==
    \/ find_begin
    \/ scan_step
    \/ scan_return

SpecDetect == InitDetect /\ [][NextDetect]_vars

---------------------------------------------------------------------------
(* Properties *)

\* main has called extract_pstore and the parameters are resolved
Resolved == pc \in {"peek", "peek_ran", "returned", "exited"} /\ args.command = "pstore"

\* main has returned
Returned == pc \in {"returned", "exited"}

\* override, else detected, else default
Precedence(override, detected, default) ==
    IF Truthy(override) THEN override
    ELSE IF Truthy(detected) THEN detected
    ELSE Some(default)

\* C1: with auto-detect requested, the resolved address and the resolved
\* size are, each on its own, the override given on the command line if
\* there is one, else the value the scan of the expdb dump found if it found
\* one, else the hardcoded default; and every peek command is built from an
\* address and a size that are defined.
C1_PrecedenceWithDetect ==
    /\ (Resolved /\ args.auto_detect_pstore) =>
          /\ address = Precedence(args.pstore_address, found.addr, PSTORE_ADDRESS)
          /\ size = Precedence(args.pstore_size, found.size, PSTORE_SIZE)
    /\ \A i \in 1..Len(calls) :
          calls[i].type = "pstore" =>
             /\ Truthy(calls[i].address) /\ calls[i].address = address
             /\ Truthy(calls[i].size) /\ calls[i].size = size
             /\ Contains(calls[i].cmd,
                         S_peek \o address.val \o S_space \o size.val \o S_space)

\* a detected address combined with the default size has been passed to peek
C1_DetectedAddressDefaultSize ==
    /\ pc = "peek_ran"
    /\ args.auto_detect_pstore
    /\ ~args.pstore_address.some /\ ~args.pstore_size.some
    /\ found.addr.some /\ ~found.size.some
    /\ address = found.addr /\ address # Some(PSTORE_ADDRESS)
    /\ size = Some(PSTORE_SIZE)

\* C2: when the pstore command runs with auto-detect disabled, no expdb
\* read is ever executed (the only command is the peek), and the resolved
\* address and size are each the override if given, else the default.
C2_NoDetectWhenDisabled ==
    (args.command = "pstore" /\ ~args.auto_detect_pstore) =>
        /\ Len(calls) <= 1
        /\ \A i \in 1..Len(calls) :
              /\ calls[i].type = "pstore"
              /\ ~Contains(calls[i].cmd, S_r_expdb)
              /\ Contains(calls[i].cmd, S_peek)
        /\ Resolved =>
              /\ address = Precedence(args.pstore_address, None, PSTORE_ADDRESS)
              /\ size = Precedence(args.pstore_size, None, PSTORE_SIZE)

\* pstore without auto-detect has finished after the peek alone, with the
\* default address and the size given on the command line
C2_PeekOnly ==
    /\ pc = "exited"
    /\ args.command = "pstore" /\ ~args.auto_detect_pstore
    /\ Len(calls) = 1
    /\ ~args.pstore_address.some /\ address = Some(PSTORE_ADDRESS)
    /\ args.pstore_size = Some(ARG_SIZE) /\ size = Some(ARG_SIZE)

\* C3: if the command that fetches the requested dump (the expdb read of
\* extract_expdb, the peek of extract_pstore) exits non-zero or cannot be
\* launched, the operation returns False, the output file is not written
\* and extract_ascii_strings is never called.
C3_CommandFailureNoOutput ==
    (Returned /\ "cmd" \in failures) =>
        /\ result = "False"
        /\ outfile.state = "absent"
        /\ scans = 0

\* extract_pstore has returned after a peek that failed
C3_PeekFailed ==
    /\ pc = "returned"
    /\ args.command = "pstore"
    /\ "cmd" \in failures
    /\ ~cmd_ok
    /\ result = "False"

\* C4, as claimed: every failure is terminal, whenever a command fails (the
\* expdb read of the auto-detection included) or a file operation fails,
\* the invocation returns failure.
C4_EveryFailureTerminal ==
    (Returned /\ failures # {}) => result = "False"

\* C4, amended: the invocation returns failure exactly when the command
\* that fetches the requested dump failed; a failed expdb read of the
\* auto-detection and a file error in reading the raw dump or writing the
\* output are logged and leave the result True.
C4_RequestedCommandDecides ==
    Returned =>
        /\ result \in {"True", "False"}
        /\ result = "False" <=> "cmd" \in failures

\* an invocation that returned True although the auto-detection's expdb
\* read failed and the output could not be written
C4_SuccessDespiteFailures ==
    /\ pc = "exited"
    /\ failures = {"detect_cmd", "scan_io"}
    /\ outfile.state # "written"
    /\ result = "True"

\* C5: the string given with --mtkclient-args is part of every command line
\* that is executed.
C5_ExtraArgsAppended ==
    \A i \in 1..Len(calls) :
        args.mtkclient_args.some =>
            Contains(calls[i].cmd, args.mtkclient_args.val)

\* C6: a pstore-only flag (--auto-detect-pstore, or --dont-peek-via-da,
\* which sets dont_peek_via_da to False) given with the expdb command is
\* warned about, and the expdb extraction goes on.
C6_WrongCommandWarns ==
    (/\ pc # "main"
     /\ args.command = "expdb"
     /\ (args.auto_detect_pstore \/ ~args.dont_peek_via_da)) =>
        /\ warned
        /\ pc \in {"expdb", "expdb_ran", "returned", "exited"}

\* C7: the process exits with a non-zero status when main returned False,
\* and with 0 only when main returned True.
C7_ExitStatusReflectsResult ==
    pc = "exited" =>
        /\ result = "False" => exit_code # 0
        /\ exit_code = 0 => result = "True"

---------------------------------------------------------------------------
(* C8: what extract_ascii_strings writes *)

RECURSIVE SplitFrom(_, _, _)
\* text.split('\n'): the lines of text from position i on, cur being the
\* part of the current line already read
SplitFrom(text, i, cur) ==
    IF i > Len(text) THEN <<cur>>
    ELSE IF text[i] = 10 THEN <<cur>> \o SplitFrom(text, i + 1, <<>>)
    ELSE SplitFrom(text, i + 1, Append(cur, text[i]))

Lines(text) == SplitFrom(text, 1, <<>>)

\* bytes s..e of buf are a maximal run of bytes in 0x20..0x7E
MaximalRun(buf, s, e) ==
    /\ 1 <= s /\ s <= e /\ e <= Len(buf)
    /\ \A k \in s..e : buf[k] >= 32 /\ buf[k] <= 126
    /\ s = 1 \/ buf[s - 1] < 32 \/ buf[s - 1] > 126
    /\ e = Len(buf) \/ buf[e + 1] < 32 \/ buf[e + 1] > 126

RECURSIVE RunsFrom(_, _, _)
\* the maximal runs of at least m bytes that start at s or later, in order
RunsFrom(buf, s, m) ==
    IF s > Len(buf) THEN <<>>
    ELSE IF \E e \in s..Len(buf) : MaximalRun(buf, s, e) /\ e - s + 1 >= m
         THEN LET e == CHOOSE e \in s..Len(buf) : MaximalRun(buf, s, e)
              IN  <<SubSeq(buf, s, e)>> \o RunsFrom(buf, s + 1, m)
         ELSE RunsFrom(buf, s + 1, m)

\* C8: what extract_ascii_strings writes is the header line
\* '=== ASCII Strings from <path> ===' followed by exactly the maximal runs
\* of bytes in 0x20..0x7E of the buffer that are at least min_length long,
\* in buffer order, one per line.
C8_WritesMaximalRuns ==
    (pc = "scanned" /\ outfile.state = "written") =>
        LET lines == Lines(outfile.content)
        IN  /\ lines = <<S_header_pre \o filename \o S_header_post>>
                          \o RunsFrom(data, 1, min_length)
            /\ \A k \in 2..Len(lines) :
                  /\ Len(lines[k]) >= min_length
                  /\ \A j \in 1..Len(lines[k]) :
                        lines[k][j] >= 32 /\ lines[k][j] <= 126

\* a buffer with two runs, both written
C8_TwoRunsWritten ==
    /\ pc = "scanned"
    /\ outfile.state = "written"
    /\ min_length = 2
    /\ data = <<32, 126, 127, 126, 126>>
    /\ Lines(outfile.content)
         = <<S_header_pre \o filename \o S_header_post, <<32, 126>>, <<126, 126>>>>

---------------------------------------------------------------------------
(* C9: temporary files *)

\* C9: every temporary directory, with the raw dump in it, is removed by
\* the time the operation that created it returns, whether the command
\* succeeded or failed and whether or not a file operation failed: none is
\* left once the invocation is over, and the one of the auto-detection is
\* gone before the peek command is started.
C9_TemporaryFilesRemoved ==
    /\ pc \in {"peek", "returned", "exited"} => tmpdirs = {} /\ files = {}
    /\ Cardinality(tmpdirs) <= 1
    /\ \A f \in files : \E d \in tmpdirs : StartsWith(f.path, d)

\* both raw dumps were made and read, and nothing is left of them
C9_BothDumpsGone ==
    /\ pc = "returned"
    /\ ntmp = 2
    /\ found.addr.some
    /\ outfile.state = "written" /\ Len(Lines(outfile.content)) > 1
    /\ tmpdirs = {} /\ files = {}

---------------------------------------------------------------------------
(* C10: the detection scan *)

\* the strings of the scan that match the pattern of key
Hits(key) ==
    {j \in 1..Len(ascii_strings) : Search(ascii_strings[j], key).some}

\* the string the scan has to stop after: the first one by which both an
\* address (a string of A) and a size (a string of S) have been seen, the
\* last string if there is none
StopAt(A, S) ==
    LET both == {i \in 1..Len(ascii_strings) :
                    (\E j \in A : j <= i) /\ (\E j \in S : j <= i)}
    IN  IF both = {} THEN Len(ascii_strings)
        ELSE CHOOSE i \in both : \A k \in both : i <= k

\* the largest element of a non-empty set of numbers
Last(J) == CHOOSE j \in J : \A k \in J : k <= j

\* 'pstore_addr: 0x48090000 junk pstore_size: 0xe0000'
ExampleString == K_addr_line \o K_junk \o K_size_line

\* C10: the scan examines the strings once each, left to right, up to and
\* including the first string after which both an address and a size have
\* been found, or all of them if there is no such string; the address (the
\* size) is reported exactly when an examined string matches its pattern,
\* and is the one of the last examined string that does; the example string
\* yields 0x48090000 and 0xe0000.
C10_ScanStopsWhenBothFound ==
    pc = "found" =>
        LET A == Hits(S_pstore_addr)
            S == Hits(S_pstore_size)
            stop == StopAt(A, S)
            seenA == {j \in A : j <= stop}
            seenS == {j \in S : j <= stop}
        IN  /\ examined = [i \in 1..stop |-> i]
            /\ found.addr.some <=> seenA # {}
            /\ found.size.some <=> seenS # {}
            /\ seenA # {} =>
                  found.addr.val
                    = S_0x \o Search(ascii_strings[Last(seenA)], S_pstore_addr).val
            /\ seenS # {} =>
                  found.size.val
                    = S_0x \o Search(ascii_strings[Last(seenS)], S_pstore_size).val
            /\ (\E j \in 1..stop : ascii_strings[j] = ExampleString) =>
                  /\ found.addr = Some(PSTORE_ADDRESS)
                  /\ found.size = Some(PSTORE_SIZE)

\* the scan stopped at the example string, leaving a later string that
\* matches unexamined
C10_StoppedBeforeLaterMatch ==
    /\ pc = "found"
    /\ Len(ascii_strings) = 2
    /\ ascii_strings[1] = ExampleString
    /\ 2 \in Hits(S_pstore_addr)
    /\ examined = <<1>>
    /\ found = [addr |-> Some(PSTORE_ADDRESS), size |-> Some(PSTORE_SIZE)]

============================================================================
